---------------------------- MODULE Spec2Model ----------------------------
(***************************************************************************)
(* Model of the realtime task runtime of src/rtapi/linux_rtapi.c: the      *)
(* module and task slot tables, task admission, the task lifecycle         *)
(* (task_start, task_stop, task_delete), the realtime worker thread and    *)
(* its periodic wait.                                                      *)
(*                                                                         *)
(* Host code calls the API from caller threads; every started task runs a  *)
(* worker thread (realtime_thread).  The calls that can suspend            *)
(* (task_start at the init barrier, task_delete in pthread_join) and       *)
(* task_new (whose slot reservation is a mutex section of its own) are     *)
(* split at these points; every other call is one atomic action.           *)
(*                                                                         *)
(* Behaviour the C standard or POSIX leaves undefined (a thread running on *)
(* a freed stack, pthread_join on a handle that names no joinable thread,  *)
(* a call through a null function pointer, an integer division by zero) is *)
(* a choice between the outcomes a build can show: the program goes on, or *)
(* a fatal signal ends the process.                                        *)
(***************************************************************************)
EXTENDS Integers, Sequences, FiniteSets, TLC

(***************************************************************************)
(* Program constants                                                       *)
(***************************************************************************)
MODULE_MAGIC == 30812
TASK_MAGIC == 21979
MODULE_OFFSET == 32768
NSEC_PER_SEC == 1000000000
EINVAL == 22
ENOMEM == 12
ENOSYS == 38
EMFILE == 24

(***************************************************************************)
(* Bounds of the model                                                     *)
(***************************************************************************)
\* size of task_array (64 in the source)
MAX_TASKS == 2
\* size of module_array (64 in the source)
MAX_MODULES == 2
\* RTAPI_MAX_MODULES of rt-preempt.c: its module table has the slots
\* 0 .. RTAPI_MAX_MODULES
RTAPI_MAX_MODULES == 2
\* number of _rtapi_init calls that can succeed (bounds ul_module_count)
MaxModuleLoads == 3
\* number of pthread_create calls that can succeed
MaxThreads == 2
\* number of host threads that may call the API
NumCallers == 2
\* cycles a worker can sleep through before the model stops its clock
MaxCycles == 2
\* tasks the host of the lifecycle specifications keeps admitted at a time
MaxLive == 1
\* periods a worker of the miss specification can sleep through
MissCycles == 11

TaskIds == 0 .. (MAX_TASKS - 1)
ModIds == 0 .. (MAX_MODULES - 1)
Handles == 1 .. MaxThreads
Callers == 1 .. NumCallers
\* the host thread of the sequential specifications
MainCaller == CHOOSE c \in Callers : \A d \in Callers : c <= d

\* task ids a caller may pass: every slot, and one id off each end
IdArgs == (-1) .. MAX_TASKS
\* module handles a caller may pass
ModArgs == { n + MODULE_OFFSET : n \in (-1) .. (MAX_MODULES + 1) }
\* priorities a caller may pass to task_new
PrioArgs == {0, 50, 100}
\* entry functions a caller may pass: an endless wait() loop, or a function
\* that returns
CodeArgs == {"loop", "ret"}
\* periods (ns) a caller may pass to clock_set_period (0 asks for the
\* stored period)
ClockPeriodArgs == {0, 1000000}
\* periods (ns) a caller may pass to task_start: below the clock period
TaskPeriodArgs == {500000}
\* periods (ns) a caller may pass to task_set_period
SetPeriodArgs == {1000000}
\* results (ns) of clock_getres(CLOCK_MONOTONIC): high-resolution timers
ClockResVals == {1}

VARIABLES
    task_array,     \* task_array[id]: the task descriptors
    module_array,   \* module_array[n]: the magic tag of each module slot
    period,         \* static int period: the clock tick, 0 when unset
    barrier,        \* barrier[id]: thread_init_barrier of each task
    thr,            \* thr[h]: the threads pthread_create has made
    caller,         \* caller[c]: what each host thread is doing, and the
                    \* result of its last call
    life,           \* life[id]: what the host has done with the slot
                    \* (history): "free" until task_new returns id and
                    \* again when task_delete(id) returns; "configured"
                    \* after task_new; "created" once task_start has
                    \* created a worker; "started" once task_start
                    \* returned 0
    rtapi_data,     \* the shared segment of rt-preempt.c: its module
                    \* table and module count
    array_mutex,    \* array_mutex: the caller that holds it, or 0
    printed,        \* the messages rtapi_wait has passed to rtapi_print_msg,
                    \* counted by level
    signal          \* the fatal signal that ended the process, or "none"

vars == <<task_array, module_array, period, barrier, thr, caller, life,
          rtapi_data, array_mutex, printed, signal>>

\* the process was killed
crashed == signal # "none"

(***************************************************************************)
(* rtapi_prio_lowest / rtapi_prio_highest: sched_get_priority_min/max of   *)
(* SCHED_FIFO on Linux.                                                    *)
(***************************************************************************)
rtapi_prio_lowest == 1
rtapi_prio_highest == 99

NoTime == [sec |-> 0, nsec |-> 0]

\* a static, zero-initialised task_data
ZeroTask ==
    [magic |-> 0, deleted |-> 0, destroyed |-> 0, period |-> 0, ratio |-> 0,
     stackaddr |-> "NULL", thread |-> 0, taskcode |-> "none",
     next_time |-> NoTime, failures |-> 0]

\* a pthread_t that pthread_create has not handed out yet.  stk: the stack
\* the thread runs on ("live": the task's allocated stack; "freed": that
\* stack after free(); "null": the task had no stack); code: the entry
\* function it has called; err: its init phase failed
NoThread == [pc |-> "none", task |-> 0, stk |-> "none", code |-> "none",
             err |-> FALSE, joined |-> FALSE]

\* the round trip task_new -> task_delete -> task_new a caller is in
\* (history): stage 1 after task_new returned id (pre: the valid slots before
\* it), 2 after task_delete(id), 3 after the next task_new with the same
\* arguments returned again
NoTrip == [stage |-> 0, id |-> 0, pre |-> {}, prio |-> 0, code |-> "none",
           again |-> 0]

\* a host thread outside the API.  op, id, ret: its last call and result;
\* arg, code: arguments and locals of the call in progress; pre: the valid
\* slots when the call began; was: life[id] when it began; joins: the
\* pthread_join calls it made
IdleCaller == [pc |-> "idle", op |-> "none", id |-> 0, ret |-> 0,
               arg |-> 0, code |-> "none", pre |-> {}, was |-> "none",
               joins |-> 0, trip |-> NoTrip]

\* no message printed yet
NoMessages == [ERR |-> 0, WARN |-> 0]

\* the shared segment of rt-preempt.c before any module is loaded; slot 0
\* of its module table is never handed out
NoData == [module_array |-> [n \in 0 .. RTAPI_MAX_MODULES |-> "NO_MODULE"],
           ul_module_count |-> 0]

\* the slots whose magic tag is valid
ValidTasks == { i \in TaskIds : task_array[i].magic = TASK_MAGIC }
UsedModules == { n \in ModIds : module_array[n] = MODULE_MAGIC }

Init ==
    /\ task_array = [i \in TaskIds |-> ZeroTask]
    /\ module_array = [n \in ModIds |-> 0]
    /\ period = 0
    /\ barrier = [i \in TaskIds |-> [st |-> "uninit", waiting |-> {}]]
    /\ thr = [h \in Handles |-> NoThread]
    /\ caller = [c \in Callers |-> IdleCaller]
    /\ life = [i \in TaskIds |-> "free"]
    /\ rtapi_data = NoData
    /\ array_mutex = 0
    /\ printed = NoMessages
    /\ signal = "none"

\* A fatal signal ends the process: its tables, threads and calls are gone.
Killed(sig) ==
    /\ signal' = sig
    /\ task_array' = [i \in TaskIds |-> ZeroTask]
    /\ module_array' = [n \in ModIds |-> 0]
    /\ period' = 0
    /\ barrier' = [i \in TaskIds |-> [st |-> "uninit", waiting |-> {}]]
    /\ thr' = [h \in Handles |-> NoThread]
    /\ caller' = [c \in Callers |-> IdleCaller]
    /\ life' = [i \in TaskIds |-> "free"]
    /\ rtapi_data' = NoData
    /\ array_mutex' = 0
    /\ printed' = NoMessages

\* a host thread may enter the API when it is not inside a call
CanCall(c) == ~crashed /\ caller[c].pc = "idle"

\* life[id] of the id a caller passes
WasLife(id) == IF id \in TaskIds THEN life[id] ELSE "none"

\* the round trip of a caller after its call op(id) has returned ret
TripNext(t, op, id, ret, pre, prio, code) ==
    IF op = "new" /\ ret >= 0
    THEN IF t.stage = 2 /\ t.prio = prio /\ t.code = code
         THEN [t EXCEPT !.stage = 3, !.again = ret]
         ELSE [stage |-> 1, id |-> ret, pre |-> pre, prio |-> prio,
               code |-> code, again |-> 0]
    ELSE IF op = "delete" /\ ret = 0 /\ t.stage = 1 /\ t.id = id
    THEN [t EXCEPT !.stage = 2]
    ELSE IF t.stage \in {1, 2}
            /\ op \in {"stop", "pause", "resume", "set_period", "clock",
                       "init", "exit"}
    THEN t
    ELSE NoTrip

\* caller c after a call op(id) that ran in one step and returned ret
Returns(c, op, id, ret) ==
    LET pre == IF op \in {"init", "exit"} THEN UsedModules ELSE ValidTasks IN
    [IdleCaller EXCEPT !.op = op, !.id = id, !.ret = ret, !.pre = pre,
        !.was = WasLife(id),
        !.trip = TripNext(caller[c].trip, op, id, ret, pre, 0, "none")]

\* caller c inside a call op(id), at pc
Begins(c, pc, op, id, arg, code) ==
    [IdleCaller EXCEPT !.pc = pc, !.op = op, !.id = id, !.arg = arg,
        !.code = code, !.pre = ValidTasks, !.was = WasLife(id),
        !.trip = IF op = "start" THEN NoTrip ELSE caller[c].trip]

\* caller c after the call it is in has returned ret
Finishes(c, ret) ==
    LET r == caller[c] IN
    [r EXCEPT !.pc = "idle", !.ret = ret, !.code = "none",
        !.trip = TripNext(r.trip, r.op, r.id, ret, r.pre, r.arg, r.code)]

(***************************************************************************)
(* Module registry                                                         *)
(***************************************************************************)
\* the scan of rtapi_init: the first slot whose magic is not MODULE_MAGIC
FirstFreeModule ==
    IF UsedModules = ModIds THEN MAX_MODULES
    ELSE CHOOSE n \in ModIds :
            /\ module_array[n] # MODULE_MAGIC
            /\ \A m \in ModIds : m < n => module_array[m] = MODULE_MAGIC

rtapi_init(c) ==
    /\ CanCall(c)
    /\ LET n == FirstFreeModule IN
        IF n = MAX_MODULES
        THEN /\ caller' = [caller EXCEPT ![c] = Returns(c, "init", 0, -ENOMEM)]
             /\ UNCHANGED module_array
        ELSE /\ module_array' = [module_array EXCEPT ![n] = MODULE_MAGIC]
             /\ caller' = [caller EXCEPT
                    ![c] = Returns(c, "init", 0, n + MODULE_OFFSET)]
    /\ UNCHANGED <<task_array, period, barrier, thr, life, rtapi_data,
                   array_mutex, printed, signal>>

rtapi_exit(c, id) ==
    /\ CanCall(c)
    /\ LET n == id - MODULE_OFFSET IN
        IF n < 0 \/ n >= MAX_MODULES
        THEN /\ caller' = [caller EXCEPT ![c] = Returns(c, "exit", id, -1)]
             /\ UNCHANGED module_array
        ELSE /\ module_array' = [module_array EXCEPT ![n] = 0]
             /\ caller' = [caller EXCEPT ![c] = Returns(c, "exit", id, 0)]
    /\ UNCHANGED <<task_array, period, barrier, thr, life, rtapi_data,
                   array_mutex, printed, signal>>

\* the occupied slots of the module table of rt-preempt.c
RtUsedModules ==
    { n \in 1 .. RTAPI_MAX_MODULES :
        rtapi_data.module_array[n] # "NO_MODULE" }

\* the scan of _rtapi_init: n = 1; while ((n <= RTAPI_MAX_MODULES) &&
\* (module_array[n].state != NO_MODULE)) n++
RtFirstFreeModule ==
    IF RtUsedModules = 1 .. RTAPI_MAX_MODULES THEN RTAPI_MAX_MODULES + 1
    ELSE CHOOSE n \in 1 .. RTAPI_MAX_MODULES :
            /\ n \notin RtUsedModules
            /\ \A m \in 1 .. RTAPI_MAX_MODULES : m < n => m \in RtUsedModules

\* _rtapi_init of rt-preempt.c (RTAPI build)
rtpreempt_rtapi_init(c) ==
    /\ CanCall(c)
    /\ LET n == RtFirstFreeModule IN
        IF n > RTAPI_MAX_MODULES
        THEN /\ caller' = [caller EXCEPT
                    ![c] = [Returns(c, "rt_init", 0, -EMFILE)
                                EXCEPT !.pre = RtUsedModules]]
             /\ UNCHANGED rtapi_data
        ELSE /\ rtapi_data.ul_module_count < MaxModuleLoads
             /\ rtapi_data' = [rtapi_data EXCEPT
                    !.module_array[n] = "REALTIME",
                    !.ul_module_count = @ + 1]
             /\ caller' = [caller EXCEPT
                    ![c] = [Returns(c, "rt_init", 0, n + MODULE_OFFSET)
                                EXCEPT !.pre = RtUsedModules]]
    /\ UNCHANGED <<task_array, module_array, period, barrier, thr, life,
                   array_mutex, printed, signal>>

\* _rtapi_exit of rt-preempt.c (RTAPI build)
rtpreempt_rtapi_exit(c, module_id) ==
    /\ CanCall(c)
    /\ LET n == module_id - MODULE_OFFSET IN
        IF n < 0 \/ n >= RTAPI_MAX_MODULES
        THEN /\ caller' = [caller EXCEPT
                    ![c] = [Returns(c, "rt_exit", module_id, -1)
                                EXCEPT !.pre = RtUsedModules]]
             /\ UNCHANGED rtapi_data
        ELSE /\ rtapi_data' = [rtapi_data EXCEPT
                    !.module_array[n] = "NO_MODULE"]
             /\ caller' = [caller EXCEPT
                    ![c] = [Returns(c, "rt_exit", module_id, 0)
                                EXCEPT !.pre = RtUsedModules]]
    /\ UNCHANGED <<task_array, module_array, period, barrier, thr, life,
                   array_mutex, printed, signal>>

(***************************************************************************)
(* Clock period                                                            *)
(***************************************************************************)
\* a clock_set_period without the test period < 1
RoundedPeriod_notest(nsecs, res) == (nsecs \div res) * res

\* period = (nsecs / res.tv_nsec) * res.tv_nsec; if (period < 1) period = res
RoundedPeriod(nsecs, res) ==
    LET p == (nsecs \div res) * res IN IF p < 1 THEN res ELSE p

\* res: the resolution clock_getres reports
rtapi_clock_set_period(c, nsecs, res) ==
    /\ CanCall(c)
    /\ IF nsecs = 0
       THEN /\ caller' = [caller EXCEPT
                    ![c] = Returns(c, "clock", nsecs, period)]
            /\ UNCHANGED period
       ELSE IF period # 0
       THEN /\ caller' = [caller EXCEPT
                    ![c] = Returns(c, "clock", nsecs, -EINVAL)]
            /\ UNCHANGED period
       ELSE /\ period' = RoundedPeriod(nsecs, res)
            /\ caller' = [caller EXCEPT
                    ![c] = Returns(c, "clock", nsecs, period')]
    /\ UNCHANGED <<task_array, module_array, rtapi_data, array_mutex, printed,
                   barrier, thr, life, signal>>

(***************************************************************************)
(* Task admission                                                          *)
(***************************************************************************)
\* the scan of rtapi_task_new:
\* n = 0; while ((n < MAX_TASKS) && (task_array[n].magic == TASK_MAGIC)) n++
FirstFreeTask ==
    IF ValidTasks = TaskIds THEN MAX_TASKS
    ELSE CHOOSE n \in TaskIds :
            /\ task_array[n].magic # TASK_MAGIC
            /\ \A m \in TaskIds : m < n => task_array[m].magic = TASK_MAGIC

\* prio < lowest || prio > highest
BadPrio(prio) == prio < rtapi_prio_lowest \/ prio > rtapi_prio_highest

\* rtapi_task_new up to the end of its mutex section: the stack is
\* allocated (mallocOk: whether malloc succeeded), then the first free slot
\* is reserved by writing its magic tag
rtapi_task_new(c, prio, code, mallocOk) ==
    /\ CanCall(c)
    /\ IF ~mallocOk \/ FirstFreeTask = MAX_TASKS
       THEN /\ caller' = [caller EXCEPT ![c] = Returns(c, "new", 0, -ENOMEM)]
            /\ UNCHANGED task_array
       ELSE /\ task_array' = [task_array EXCEPT
                    ![FirstFreeTask].magic = TASK_MAGIC]
            /\ caller' = [caller EXCEPT
                    ![c] = Begins(c, "new_check", "new", FirstFreeTask,
                                  prio, code)]
    /\ UNCHANGED <<module_array, rtapi_data, array_mutex, printed, period,
                   barrier, thr, life, signal>>

\* the fields rtapi_task_new records in the reserved slot
ConfiguredTask(t, code) ==
    [t EXCEPT !.stackaddr = "alloc", !.destroyed = 0, !.taskcode = code]

\* rtapi_task_new after the mutex section: the priority check, which frees
\* the stack and returns on a bad priority, then the recording of the fields
rtapi_task_new_check(c) ==
    /\ ~crashed
    /\ caller[c].pc = "new_check"
    /\ LET n == caller[c].id IN
        IF BadPrio(caller[c].arg)
        THEN /\ caller' = [caller EXCEPT ![c] = Finishes(c, -EINVAL)]
             /\ UNCHANGED <<task_array, life>>
        ELSE /\ task_array' = [task_array EXCEPT
                    ![n] = ConfiguredTask(@, caller[c].code)]
             /\ life' = [life EXCEPT ![n] = "configured"]
             /\ caller' = [caller EXCEPT ![c] = Finishes(c, n)]
    /\ UNCHANGED <<module_array, rtapi_data, array_mutex, printed, period,
                   barrier, thr, signal>>

\* the validation every task call starts with:
\* id < 0 || id >= MAX_TASKS, then task->magic != TASK_MAGIC
BadHandle(id) ==
    \/ id < 0
    \/ id >= MAX_TASKS
    \/ task_array[id].magic # TASK_MAGIC

\* a task_stop that forgets the flag
StoppedTask_noflag(t) == t

\* task->destroyed = 1
StoppedTask(t) == [t EXCEPT !.destroyed = 1]

rtapi_task_stop(c, id) ==
    /\ CanCall(c)
    /\ IF BadHandle(id)
       THEN /\ caller' = [caller EXCEPT ![c] = Returns(c, "stop", id, -EINVAL)]
            /\ UNCHANGED task_array
       ELSE /\ task_array' = [task_array EXCEPT ![id] = StoppedTask(@)]
            /\ caller' = [caller EXCEPT ![c] = Returns(c, "stop", id, 0)]
    /\ UNCHANGED <<module_array, rtapi_data, array_mutex, printed, period,
                   barrier, thr, life, signal>>

rtapi_task_pause(c, id) ==
    /\ CanCall(c)
    /\ caller' = [caller EXCEPT
            ![c] = Returns(c, "pause", id,
                           IF BadHandle(id) THEN -EINVAL ELSE -ENOSYS)]
    /\ UNCHANGED <<task_array, module_array, rtapi_data, array_mutex, printed,
                   period, barrier, thr, life, signal>>

rtapi_task_resume(c, id) ==
    /\ CanCall(c)
    /\ caller' = [caller EXCEPT
            ![c] = Returns(c, "resume", id,
                           IF BadHandle(id) THEN -EINVAL ELSE -ENOSYS)]
    /\ UNCHANGED <<task_array, module_array, rtapi_data, array_mutex, printed,
                   period, barrier, thr, life, signal>>

\* a task_set_period that also restarts the cycle of the task
RetimedTask_restart(t, period_nsec) ==
    [t EXCEPT !.period = period_nsec, !.next_time = NoTime]

\* task->period = period_nsec
RetimedTask(t, period_nsec) == [t EXCEPT !.period = period_nsec]

\* the caller keeps the period it passed (arg)
rtapi_task_set_period(c, id, period_nsec) ==
    /\ CanCall(c)
    /\ IF BadHandle(id)
       THEN /\ caller' = [caller EXCEPT
                    ![c] = Returns(c, "set_period", id, -EINVAL)]
            /\ UNCHANGED task_array
       ELSE /\ task_array' = [task_array EXCEPT
                    ![id] = RetimedTask(@, period_nsec)]
            /\ caller' = [caller EXCEPT
                    ![c] = [Returns(c, "set_period", id, 0)
                                EXCEPT !.arg = period_nsec]]
    /\ UNCHANGED <<module_array, rtapi_data, array_mutex, printed, period,
                   barrier, thr, life, signal>>

(***************************************************************************)
(* Time                                                                    *)
(***************************************************************************)
\* the loop of rtapi_advance_time: while (ns > 1000000000) { s++; ns -= ... }
RECURSIVE CarryLoop(_, _)
CarryLoop(ns, s) ==
    IF ns > NSEC_PER_SEC THEN CarryLoop(ns - NSEC_PER_SEC, s + 1)
    ELSE [sec |-> s, nsec |-> ns]

\* rtapi_advance_time(tv, ns, s)
rtapi_advance_time(tv, ns, s) ==
    LET r == CarryLoop(ns + tv.nsec, s) IN
    [sec |-> tv.sec + r.sec, nsec |-> r.nsec]

\* ts.tv_sec > tv.tv_sec || (ts.tv_sec == tv.tv_sec && ts.tv_nsec > tv.tv_nsec)
TimeAfter(ts, tv) ==
    \/ ts.sec > tv.sec
    \/ (ts.sec = tv.sec /\ ts.nsec > tv.nsec)

\* the instant a timespec names, in ns
TimeNs(tv) == tv.sec * NSEC_PER_SEC + tv.nsec

(***************************************************************************)
(* Threads                                                                 *)
(***************************************************************************)
FreeHandles == { h \in Handles : thr[h].pc = "none" }

\* the handle pthread_create stores in task->thread
NewHandle == CHOOSE h \in FreeHandles : \A g \in FreeHandles : h <= g

\* a thread that has been created and has not terminated
Alive(h) == thr[h].pc \notin {"none", "exited"}

\* a thread after it has terminated
Exited(t) == [NoThread EXCEPT !.pc = "exited", !.err = t.err,
                              !.joined = t.joined]

\* free(task->stackaddr) of task id, seen from the threads t: those that
\* run on that stack lose it
FreeStack(t, id) ==
    [h \in Handles |->
        IF t[h].pc \notin {"none", "exited"} /\ t[h].task = id
            /\ t[h].stk = "live"
        THEN [t[h] EXCEPT !.stk = "freed"] ELSE t[h]]

\* the two parties of pthread_barrier_wait(&task->thread_init_barrier)
StarterParty(c) == [kind |-> "caller", who |-> c]
WorkerParty(h) == [kind |-> "thread", who |-> h]

\* a worker that calls the entry function straight after the barrier
AfterBarrier_unseeded(pc) ==
    IF pc \in {"arrive_ok", "blocked_ok"} THEN "run" ELSE "epilogue"

\* where a thread released from the barrier goes on: the success path seeds
\* next_time, the error path returns
AfterBarrier(pc) ==
    IF pc \in {"arrive_ok", "blocked_ok"} THEN "seed" ELSE "epilogue"

\* a barrier that opens for the starter and leaves the worker blocked
ReleaseThread_stuck(q) == thr

\* the threads after party q has been released from the barrier
ReleaseThread(q) ==
    IF q.kind = "thread"
    THEN [thr EXCEPT ![q.who].pc = AfterBarrier(thr[q.who].pc)]
    ELSE thr

\* the callers after party q has been released from the barrier
ReleaseCaller(q) ==
    IF q.kind = "caller"
    THEN [caller EXCEPT ![q.who].pc = "start_after"]
    ELSE caller

(***************************************************************************)
(* task_start                                                              *)
(***************************************************************************)
\* if (period_nsec < period) period_nsec = period
ClampPeriod(period_nsec) ==
    IF period_nsec < period THEN period ELSE period_nsec

\* task->period = period_nsec; task->ratio = period_nsec / period;
\* task->deleted = 0
StartedTask(t, period_nsec) ==
    [t EXCEPT !.period = ClampPeriod(period_nsec),
              !.ratio = ClampPeriod(period_nsec) \div period,
              !.deleted = 0]

\* the thread pthread_create makes for task id: it runs on the stack
\* pthread_attr_setstack was given
CreatedThread(id) ==
    [NoThread EXCEPT !.pc = "init", !.task = id,
        !.stk = IF task_array[id].stackaddr = "alloc" THEN "live" ELSE "null"]

\* rtapi_task_start up to pthread_create (createOk: whether it succeeds).
\* With the clock period unset, period_nsec / period divides by zero, which
\* raises SIGFPE on x86, the target of this file (it uses inb and outb).
rtapi_task_start(c, id, period_nsec, createOk) ==
    /\ CanCall(c)
    /\ IF BadHandle(id)
       THEN /\ caller' = [caller EXCEPT ![c] = Returns(c, "start", id, -EINVAL)]
            /\ UNCHANGED <<task_array, module_array, rtapi_data, array_mutex,
                           printed, period, barrier, thr, life, signal>>
       ELSE IF period = 0
       THEN Killed("SIGFPE")
       ELSE IF createOk /\ FreeHandles # {}
       THEN /\ task_array' = [task_array EXCEPT
                    ![id] = [StartedTask(@, period_nsec)
                                EXCEPT !.thread = NewHandle]]
            /\ thr' = [thr EXCEPT ![NewHandle] = CreatedThread(id)]
            /\ barrier' = [barrier EXCEPT
                    ![id] = [st |-> "ready", waiting |-> {}]]
            /\ life' = [life EXCEPT
                    ![id] = IF @ = "configured" THEN "created" ELSE @]
            /\ caller' = [caller EXCEPT
                    ![c] = Begins(c, "start_arrive", "start", id, NewHandle,
                                  "none")]
            /\ UNCHANGED <<module_array, rtapi_data, array_mutex, printed,
                           period, signal>>
       ELSE /\ task_array' = [task_array EXCEPT
                    ![id] = StartedTask(@, period_nsec)]
            /\ barrier' = [barrier EXCEPT
                    ![id] = [st |-> "destroyed", waiting |-> {}]]
            /\ caller' = [caller EXCEPT ![c] = Returns(c, "start", id, -ENOMEM)]
            /\ UNCHANGED <<module_array, rtapi_data, array_mutex, printed,
                           period, thr, life, signal>>

\* pthread_barrier_wait in rtapi_task_start: the starter blocks until the
\* worker has arrived, or releases the worker that is waiting
rtapi_task_start_barrier(c) ==
    /\ ~crashed
    /\ caller[c].pc = "start_arrive"
    /\ LET id == caller[c].id IN
        IF barrier[id].waiting = {}
        THEN /\ barrier' = [barrier EXCEPT ![id].waiting = {StarterParty(c)}]
             /\ caller' = [caller EXCEPT ![c].pc = "start_blocked"]
             /\ UNCHANGED thr
        ELSE LET q == CHOOSE w \in barrier[id].waiting : TRUE IN
             /\ barrier' = [barrier EXCEPT ![id].waiting = {}]
             /\ thr' = ReleaseThread(q)
             /\ caller' = [ReleaseCaller(q) EXCEPT ![c].pc = "start_after"]
    /\ UNCHANGED <<task_array, module_array, rtapi_data, array_mutex, printed,
                   period, life, signal>>

\* if (task->deleted) return -ENOMEM; ... return 0
StartResult(t) == IF t.deleted # 0 THEN -ENOMEM ELSE 0

\* rtapi_task_start after the barrier: the barrier is destroyed and the
\* deleted flag decides the result
rtapi_task_start_done(c) ==
    /\ ~crashed
    /\ caller[c].pc = "start_after"
    /\ barrier' = [barrier EXCEPT ![caller[c].id].st = "destroyed"]
    /\ caller' = [caller EXCEPT
            ![c] = Finishes(c, StartResult(task_array[caller[c].id]))]
    /\ life' = [life EXCEPT
            ![caller[c].id] =
                IF @ = "created" /\ StartResult(task_array[caller[c].id]) = 0
                THEN "started" ELSE @]
    /\ UNCHANGED <<task_array, module_array, rtapi_data, array_mutex, printed,
                   period, thr, signal>>

(***************************************************************************)
(* The realtime worker                                                     *)
(***************************************************************************)
\* an error path that opens the barrier without setting deleted
InitedTask_nodeleted(t, initOk) ==
    LET p == IF t.period < period THEN period ELSE t.period IN
    [t EXCEPT !.period = p, !.ratio = p \div period]

\* the task after the init phase of its worker: the period is clamped, the
\* ratio computed; on the error path (goto error) deleted is set
InitedTask(t, initOk) ==
    LET p == IF t.period < period THEN period ELSE t.period IN
    [t EXCEPT !.period = p, !.ratio = p \div period,
              !.deleted = IF initOk THEN @ ELSE 1]

\* realtime_thread up to the barrier (initOk: whether realtime_set_affinity
\* and realtime_set_priority both succeeded)
realtime_thread(h, initOk) ==
    /\ ~crashed
    /\ thr[h].pc = "init"
    /\ IF period = 0
       THEN Killed("SIGFPE")
       ELSE /\ task_array' = [task_array EXCEPT
                    ![thr[h].task] = InitedTask(@, initOk)]
            /\ thr' = [thr EXCEPT
                    ![h] = [@ EXCEPT
                        !.pc = IF initOk THEN "arrive_ok" ELSE "arrive_err",
                        !.err = ~initOk]]
            /\ UNCHANGED <<module_array, rtapi_data, array_mutex, printed,
                           period, barrier, caller, life, signal>>

\* pthread_barrier_wait in realtime_thread, on either path
realtime_thread_barrier(h) ==
    /\ ~crashed
    /\ thr[h].pc \in {"arrive_ok", "arrive_err"}
    /\ LET id == thr[h].task IN
        IF barrier[id].waiting = {}
        THEN /\ barrier' = [barrier EXCEPT ![id].waiting = {WorkerParty(h)}]
             /\ thr' = [thr EXCEPT
                    ![h].pc = IF thr[h].pc = "arrive_ok" THEN "blocked_ok"
                              ELSE "blocked_err"]
             /\ UNCHANGED caller
        ELSE LET q == CHOOSE w \in barrier[id].waiting : TRUE IN
             /\ barrier' = [barrier EXCEPT ![id].waiting = {}]
             /\ thr' = [ReleaseThread(q) EXCEPT
                    ![h].pc = AfterBarrier(thr[h].pc)]
             /\ caller' = ReleaseCaller(q)
    /\ UNCHANGED <<task_array, module_array, rtapi_data, array_mutex, printed,
                   period, life, signal>>

\* realtime_thread after the barrier: next_time = now + period, then the
\* call of task->taskcode, which is a null pointer in a slot that task_new
\* never configured
realtime_thread_seed(h, now) ==
    /\ ~crashed
    /\ thr[h].pc = "seed"
    /\ LET id == thr[h].task IN
        IF task_array[id].taskcode = "none"
        THEN Killed("SIGSEGV")
        ELSE /\ task_array' = [task_array EXCEPT
                    ![id].next_time =
                        rtapi_advance_time(now, task_array[id].period, 0)]
             /\ thr' = [thr EXCEPT ![h] = [@ EXCEPT !.pc = "run",
                                        !.code = task_array[id].taskcode]]
             /\ UNCHANGED <<module_array, rtapi_data, array_mutex, printed,
                            period, barrier, caller, life, signal>>

\* the rest of rtapi_wait in a task that is not deleted: next_time is
\* advanced, and a time ts read after it counts as a missed deadline
WaitedTask(t, ts) ==
    LET nt == rtapi_advance_time(t.next_time, t.period, 0) IN
    [t EXCEPT !.next_time = nt,
              !.failures = IF TimeAfter(ts, nt) THEN @ + 1 ELSE @]

\* a report that warns of every miss after the first
MissLevel_nodecay(failures) == IF failures = 1 THEN "ERR" ELSE "WARN"

\* msg_level of a miss, failures being the counter after its increment
MissLevel(failures) ==
    IF failures = 1 THEN "ERR"
    ELSE IF failures < 10 THEN "WARN"
    ELSE "NONE"

\* the messages after rtapi_wait has changed task t into w: a miss is
\* reported with its level, unless that is RTAPI_MSG_NONE
Reported(t, w) ==
    IF w.failures # t.failures /\ MissLevel(w.failures) # "NONE"
    THEN [printed EXCEPT ![MissLevel(w.failures)] = @ + 1]
    ELSE printed

\* rtapi_wait, called by the entry function; ts is the time read after the
\* sleep, which does not end before next_time
rtapi_wait(h, ts) ==
    /\ ~crashed
    /\ thr[h].pc = "run"
    /\ LET id == thr[h].task IN
        IF task_array[id].deleted # 0
        THEN /\ thr' = [thr EXCEPT ![h] = Exited(@)]
             /\ UNCHANGED <<task_array, printed>>
        ELSE /\ ~TimeAfter(task_array[id].next_time, ts)
             /\ task_array' = [task_array EXCEPT ![id] = WaitedTask(@, ts)]
             /\ printed' = Reported(task_array[id],
                                    WaitedTask(task_array[id], ts))
             /\ UNCHANGED thr
    /\ UNCHANGED <<module_array, rtapi_data, array_mutex, period, barrier,
                   caller, life, signal>>

\* the entry function returns: realtime_thread sets deleted
taskcode_return(h) ==
    /\ ~crashed
    /\ thr[h].pc = "run"
    /\ thr[h].code = "ret"
    /\ task_array' = [task_array EXCEPT ![thr[h].task].deleted = 1]
    /\ thr' = [thr EXCEPT ![h].pc = "epilogue"]
    /\ UNCHANGED <<module_array, rtapi_data, array_mutex, printed, period,
                   barrier, caller, life, signal>>

\* return NULL of realtime_thread: the thread terminates
realtime_thread_return(h) ==
    /\ ~crashed
    /\ thr[h].pc = "epilogue"
    /\ thr' = [thr EXCEPT ![h] = Exited(@)]
    /\ UNCHANGED <<task_array, module_array, rtapi_data, array_mutex, printed,
                   period, barrier, caller, life, signal>>

\* a thread whose stack is not allocated memory may fault at any step
stack_fault(h) ==
    /\ ~crashed
    /\ Alive(h)
    /\ thr[h].stk \in {"freed", "null"}
    /\ Killed("SIGSEGV")

(***************************************************************************)
(* task_delete                                                             *)
(***************************************************************************)
\* the end of rtapi_task_delete: task->stackaddr = NULL; task->magic = 0
DeletedTask(t) == [t EXCEPT !.stackaddr = "NULL", !.magic = 0]

\* if (!task->deleted): whether rtapi_task_delete joins the thread
MustJoin(t) == t.deleted = 0

\* rtapi_task_delete up to pthread_join; with deleted set there is no join
\* and the call runs to its end
rtapi_task_delete(c, id) ==
    /\ CanCall(c)
    /\ IF BadHandle(id)
       THEN /\ caller' = [caller EXCEPT
                    ![c] = Returns(c, "delete", id, -EINVAL)]
            /\ UNCHANGED <<task_array, thr, life>>
       ELSE IF MustJoin(task_array[id])
       THEN /\ task_array' = [task_array EXCEPT ![id].deleted = 1]
            /\ caller' = [caller EXCEPT
                    ![c] = [Begins(c, "del_join", "delete", id,
                                   task_array[id].thread, "none")
                                EXCEPT !.joins = 1]]
            /\ UNCHANGED <<thr, life>>
       ELSE /\ task_array' = [task_array EXCEPT ![id] = DeletedTask(@)]
            /\ thr' = FreeStack(thr, id)
            /\ life' = [life EXCEPT ![id] = "free"]
            /\ caller' = [caller EXCEPT ![c] = Returns(c, "delete", id, 0)]
    /\ UNCHANGED <<module_array, rtapi_data, array_mutex, printed, period,
                   barrier, signal>>

\* the handle names a thread that pthread_join can wait for
Joinable(h) == h \in Handles /\ thr[h].pc # "none" /\ ~thr[h].joined

\* the rest of rtapi_task_delete once pthread_join has returned, t being
\* the threads then
DeleteFinish(c, t) ==
    /\ task_array' = [task_array EXCEPT ![caller[c].id] = DeletedTask(@)]
    /\ thr' = FreeStack(t, caller[c].id)
    /\ life' = [life EXCEPT ![caller[c].id] = "free"]
    /\ caller' = [caller EXCEPT ![c] = Finishes(c, 0)]

\* pthread_join returns when the thread has terminated, and the call ends
rtapi_task_delete_join(c) ==
    /\ ~crashed
    /\ caller[c].pc = "del_join"
    /\ Joinable(caller[c].arg)
    /\ thr[caller[c].arg].pc = "exited"
    /\ DeleteFinish(c, [thr EXCEPT ![caller[c].arg].joined = TRUE])
    /\ UNCHANGED <<module_array, rtapi_data, array_mutex, printed, period,
                   barrier, signal>>

\* pthread_join on a handle that names no joinable thread (task->thread was
\* never set, or names a thread that was joined before) is undefined: it
\* fails with ESRCH and the call goes on, or it faults
rtapi_task_delete_badjoin(c) ==
    /\ ~crashed
    /\ caller[c].pc = "del_join"
    /\ ~Joinable(caller[c].arg)
    /\ \/ /\ DeleteFinish(c, thr)
          /\ UNCHANGED <<module_array, rtapi_data, array_mutex, printed,
                         period, barrier, signal>>
       \/ Killed("SIGSEGV")

(***************************************************************************)
(* The mutex sections, step by step.  Where several host threads call at   *)
(* once, a section of array_mutex is split into the lock, the scan of the  *)
(* table and the write of the tag with the unlock; a section that is one   *)
(* write is one step, taken when the mutex is free.                        *)
(***************************************************************************)
\* pthread_mutex_lock(&array_mutex) returns when nobody holds the mutex
CanLock == array_mutex = 0

\* rtapi_task_new up to pthread_mutex_lock: malloc, then the lock
rtapi_task_new_lock(c, prio, code, mallocOk) ==
    /\ CanCall(c)
    /\ IF ~mallocOk
       THEN /\ caller' = [caller EXCEPT ![c] = Returns(c, "new", 0, -ENOMEM)]
            /\ UNCHANGED array_mutex
       ELSE /\ CanLock
            /\ array_mutex' = c
            /\ caller' = [caller EXCEPT
                    ![c] = Begins(c, "new_scan", "new", 0, prio, code)]
    /\ UNCHANGED <<task_array, module_array, period, barrier, thr, life,
                   rtapi_data, printed, signal>>

\* the scan of rtapi_task_new, inside the section; a full table ends the
\* call
rtapi_task_new_scan(c) ==
    /\ ~crashed
    /\ caller[c].pc = "new_scan"
    /\ IF FirstFreeTask = MAX_TASKS
       THEN /\ array_mutex' = 0
            /\ caller' = [caller EXCEPT ![c] = Finishes(c, -ENOMEM)]
       ELSE /\ caller' = [caller EXCEPT
                    ![c] = [@ EXCEPT !.pc = "new_write", !.id = FirstFreeTask]]
            /\ UNCHANGED array_mutex
    /\ UNCHANGED <<task_array, module_array, period, barrier, thr, life,
                   rtapi_data, printed, signal>>

\* task->magic = TASK_MAGIC and the unlock
rtapi_task_new_write(c) ==
    /\ ~crashed
    /\ caller[c].pc = "new_write"
    /\ task_array' = [task_array EXCEPT ![caller[c].id].magic = TASK_MAGIC]
    /\ array_mutex' = 0
    /\ caller' = [caller EXCEPT ![c].pc = "new_check"]
    /\ UNCHANGED <<module_array, period, barrier, thr, life, rtapi_data,
                   printed, signal>>

\* rtapi_init up to the scan: the lock
rtapi_init_lock(c) ==
    /\ CanCall(c)
    /\ CanLock
    /\ array_mutex' = c
    /\ caller' = [caller EXCEPT
            ![c] = [Begins(c, "init_scan", "init", 0, 0, "none")
                        EXCEPT !.pre = UsedModules]]
    /\ UNCHANGED <<task_array, module_array, period, barrier, thr, life,
                   rtapi_data, printed, signal>>

\* the loop of rtapi_init up to the slot it finds; a full table ends the
\* call
rtapi_init_scan(c) ==
    /\ ~crashed
    /\ caller[c].pc = "init_scan"
    /\ IF FirstFreeModule = MAX_MODULES
       THEN /\ array_mutex' = 0
            /\ caller' = [caller EXCEPT ![c] = Finishes(c, -ENOMEM)]
       ELSE /\ caller' = [caller EXCEPT
                    ![c] = [@ EXCEPT !.pc = "init_write",
                                     !.arg = FirstFreeModule]]
            /\ UNCHANGED array_mutex
    /\ UNCHANGED <<task_array, module_array, period, barrier, thr, life,
                   rtapi_data, printed, signal>>

\* module_array[n].magic = MODULE_MAGIC, the unlock and the return
rtapi_init_write(c) ==
    /\ ~crashed
    /\ caller[c].pc = "init_write"
    /\ module_array' = [module_array EXCEPT ![caller[c].arg] = MODULE_MAGIC]
    /\ array_mutex' = 0
    /\ caller' = [caller EXCEPT
            ![c] = Finishes(c, caller[c].arg + MODULE_OFFSET)]
    /\ UNCHANGED <<task_array, period, barrier, thr, life, rtapi_data, printed,
                   signal>>

\* rtapi_task_delete up to pthread_join or, with deleted set, up to
\* pthread_mutex_lock: the handle is validated and the stack freed without
\* the mutex
rtapi_task_delete_enter(c, id) ==
    /\ CanCall(c)
    /\ IF BadHandle(id)
       THEN /\ caller' = [caller EXCEPT
                    ![c] = Returns(c, "delete", id, -EINVAL)]
            /\ UNCHANGED <<task_array, thr>>
       ELSE IF MustJoin(task_array[id])
       THEN /\ task_array' = [task_array EXCEPT ![id].deleted = 1]
            /\ caller' = [caller EXCEPT
                    ![c] = [Begins(c, "del_join", "delete", id,
                                   task_array[id].thread, "none")
                                EXCEPT !.joins = 1]]
            /\ UNCHANGED thr
       ELSE /\ task_array' = [task_array EXCEPT ![id].stackaddr = "NULL"]
            /\ thr' = FreeStack(thr, id)
            /\ caller' = [caller EXCEPT
                    ![c] = Begins(c, "del_lock", "delete", id, 0, "none")]
    /\ UNCHANGED <<module_array, period, barrier, life, rtapi_data,
                   array_mutex, printed, signal>>

\* the section of rtapi_task_delete: task->magic = 0, and the return
rtapi_task_delete_clear(c) ==
    /\ ~crashed
    /\ caller[c].pc = "del_lock"
    /\ CanLock
    /\ task_array' = [task_array EXCEPT ![caller[c].id].magic = 0]
    /\ life' = [life EXCEPT ![caller[c].id] = "free"]
    /\ caller' = [caller EXCEPT ![c] = Finishes(c, 0)]
    /\ UNCHANGED <<module_array, period, barrier, thr, rtapi_data, array_mutex,
                   printed, signal>>

(***************************************************************************)
(* Specifications                                                          *)
(***************************************************************************)
\* the clock readings of the lifecycle specification
SeedTimes == { NoTime }

\* the calls on an admitted task
TaskCalls(c) ==
    \/ \E id \in IdArgs, ns \in TaskPeriodArgs, createOk \in BOOLEAN :
            rtapi_task_start(c, id, ns, createOk)
    \/ rtapi_task_start_barrier(c)
    \/ rtapi_task_start_done(c)
    \/ \E id \in IdArgs : rtapi_task_stop(c, id)
    \/ \E id \in IdArgs : rtapi_task_pause(c, id)
    \/ \E id \in IdArgs : rtapi_task_resume(c, id)
    \/ \E id \in IdArgs, ns \in SetPeriodArgs :
            rtapi_task_set_period(c, id, ns)

\* task_delete
DeleteCalls(c) ==
    \/ \E id \in IdArgs : rtapi_task_delete(c, id)
    \/ rtapi_task_delete_join(c)
    \/ rtapi_task_delete_badjoin(c)

\* the model's horizon: a worker sleeps only to wake-up times before it
Horizon == MaxCycles * 1000000

\* the task of worker h is deleted, or its next wake-up is less than
\* horizon ns after the epoch
CanSleep(h, horizon) ==
    \/ task_array[thr[h].task].deleted # 0
    \/ TimeNs(task_array[thr[h].task].next_time) < horizon

\* the steps of worker thread h; every wake-up is on time
WorkerStep(h) ==
    \/ \E initOk \in BOOLEAN : realtime_thread(h, initOk)
    \/ realtime_thread_barrier(h)
    \/ \E now \in SeedTimes : realtime_thread_seed(h, now)
    \/ /\ CanSleep(h, Horizon)
       /\ rtapi_wait(h, task_array[thr[h].task].next_time)
    \/ taskcode_return(h)
    \/ realtime_thread_return(h)

\* The task lifecycle: one host thread sets the clock period and admits,
\* starts, stops and deletes tasks, at most MaxLive of them at a time; the
\* workers run beside it.
Next ==
    \/ \E ns \in ClockPeriodArgs, res \in ClockResVals :
            rtapi_clock_set_period(MainCaller, ns, res)
    \/ \E prio \in PrioArgs, code \in CodeArgs, mallocOk \in BOOLEAN :
            /\ Cardinality(ValidTasks) < MaxLive
            /\ rtapi_task_new(MainCaller, prio, code, mallocOk)
    \/ rtapi_task_new_check(MainCaller)
    \/ TaskCalls(MainCaller)
    \/ DeleteCalls(MainCaller)
    \/ \E h \in Handles : WorkerStep(h)
    \/ \E h \in Handles : stack_fault(h)

Spec == Init /\ [][Next]_vars

\* The lifecycle under fair scheduling: a worker that can take a step
\* takes it (the workers are SCHED_FIFO threads), and a call of the host
\* that can go on goes on.  A fault is never owed.
Fairness ==
    /\ \A h \in Handles : WF_vars(WorkerStep(h))
    /\ WF_vars(rtapi_task_new_check(MainCaller))
    /\ WF_vars(rtapi_task_start_barrier(MainCaller))
    /\ WF_vars(rtapi_task_start_done(MainCaller))
    /\ WF_vars(rtapi_task_delete_join(MainCaller))

LiveSpec == Init /\ [][Next]_vars /\ Fairness

\* Admission: one host thread registers modules and admits, stops and
\* deletes tasks in every slot; no task is started.
AdmitNext ==
    \/ rtapi_init(MainCaller)
    \/ \E id \in ModArgs : rtapi_exit(MainCaller, id)
    \/ \E prio \in PrioArgs, code \in CodeArgs, mallocOk \in BOOLEAN :
            rtapi_task_new(MainCaller, prio, code, mallocOk)
    \/ rtapi_task_new_check(MainCaller)
    \/ \E id \in IdArgs : rtapi_task_stop(MainCaller, id)
    \/ \E id \in IdArgs : rtapi_task_delete(MainCaller, id)
    \/ rtapi_task_delete_badjoin(MainCaller)

AdmitSpec == Init /\ [][AdmitNext]_vars

\* the normalised timespec of the instant ns
Normal(ns) == [sec |-> ns \div NSEC_PER_SEC, nsec |-> ns % NSEC_PER_SEC]

\* periods (ns) a caller of the timing specification passes to task_start
\* and task_set_period: below and above the clock period
TimingPeriodArgs == {500000, 1500000}
\* the clock readings of the timing specification at the seeding of
\* next_time: up to MaxCycles + 1 half periods before a full second
TimingSeedTimes ==
    { Normal(NSEC_PER_SEC - k * 500000) : k \in 1 .. (MaxCycles + 1) }
\* how late (ns) a sleep of the timing specification may end
TimingLateBy == {0, 700000, 2500000}
\* the horizon of the timing specification
TimingHorizon == NSEC_PER_SEC + Horizon

\* the steps of worker thread h in the timing specification: the clock is
\* read at any of TimingSeedTimes, and a sleep may end late
TimingWorkerStep(h) ==
    \/ \E initOk \in BOOLEAN : realtime_thread(h, initOk)
    \/ realtime_thread_barrier(h)
    \/ \E now \in TimingSeedTimes : realtime_thread_seed(h, now)
    \/ \E late \in TimingLateBy :
            /\ CanSleep(h, TimingHorizon)
            /\ rtapi_wait(h,
                    Normal(TimeNs(task_array[thr[h].task].next_time) + late))
    \/ realtime_thread_return(h)

\* Timing: one host thread sets the clock period, admits tasks, starts them
\* and changes their periods; the workers sleep across a full second.
TimingNext ==
    \/ \E ns \in ClockPeriodArgs, res \in ClockResVals :
            rtapi_clock_set_period(MainCaller, ns, res)
    \/ /\ Cardinality(ValidTasks) < MaxLive
       /\ rtapi_task_new(MainCaller, rtapi_prio_highest, "loop", TRUE)
    \/ rtapi_task_new_check(MainCaller)
    \/ \E id \in TaskIds, ns \in TimingPeriodArgs :
            /\ period # 0
            /\ rtapi_task_start(MainCaller, id, ns, TRUE)
    \/ rtapi_task_start_barrier(MainCaller)
    \/ rtapi_task_start_done(MainCaller)
    \/ \E id \in TaskIds, ns \in TimingPeriodArgs :
            rtapi_task_set_period(MainCaller, id, ns)
    \/ \E h \in Handles : TimingWorkerStep(h)

TimingSpec == Init /\ [][TimingNext]_vars

\* periods (ns) a caller of the registration specification passes to
\* clock_set_period: 0, below and above the resolutions, up to INT_MAX
ClockWideArgs == {0, 1, 999, 1000000, 2147483647}
\* results (ns) of clock_getres there: high-resolution timers, and timers
\* of a microsecond and of a 250 Hz tick
ClockWideRes == {1, 1000, 4000000}
\* module handles a caller may pass to _rtapi_exit
RtModArgs == { n + MODULE_OFFSET : n \in (-1) .. (RTAPI_MAX_MODULES + 1) }

\* Registration: one host thread loads and unloads modules, through
\* linux_rtapi.c and through rt-preempt.c, and sets the clock period.
RegistryNext ==
    \/ rtapi_init(MainCaller)
    \/ \E id \in ModArgs : rtapi_exit(MainCaller, id)
    \/ rtpreempt_rtapi_init(MainCaller)
    \/ \E id \in RtModArgs : rtpreempt_rtapi_exit(MainCaller, id)
    \/ \E ns \in ClockWideArgs, res \in ClockWideRes :
            rtapi_clock_set_period(MainCaller, ns, res)

RegistrySpec == Init /\ [][RegistryNext]_vars

\* the calls of host thread c in the concurrent specification; a task is
\* deleted by a thread only while task_new has returned its id and no
\* task_delete of it has returned
ConcCalls(c) ==
    \/ rtapi_task_new_lock(c, rtapi_prio_highest, "loop", TRUE)
    \/ rtapi_task_new_scan(c)
    \/ rtapi_task_new_write(c)
    \/ rtapi_task_new_check(c)
    \/ \E id \in TaskIds :
            /\ life[id] = "configured"
            /\ rtapi_task_delete_enter(c, id)
    \/ /\ CanLock
       /\ rtapi_task_delete_badjoin(c)
    \/ rtapi_task_delete_clear(c)
    \/ rtapi_init_lock(c)
    \/ rtapi_init_scan(c)
    \/ rtapi_init_write(c)
    \/ \E n \in UsedModules :
            /\ CanLock
            /\ rtapi_exit(c, n + MODULE_OFFSET)

\* Concurrency: several host threads admit and delete tasks and load and
\* unload modules at once.
ConcNext == \E c \in Callers : ConcCalls(c)

ConcSpec == Init /\ [][ConcNext]_vars

(***************************************************************************)
(* Properties                                                              *)
(***************************************************************************)
\* the calls that take a task id
TaskOps == {"start", "stop", "pause", "resume", "set_period", "delete"}

C2_BoundedAdmission ==
    \A c \in Callers :
        caller[c].pc = "idle" =>
            /\ (caller[c].op = "new" /\ caller[c].ret >= 0)
                => /\ caller[c].ret \in TaskIds \ caller[c].pre
                   /\ \A m \in TaskIds :
                        m < caller[c].ret => m \in caller[c].pre
            /\ (caller[c].op = "new" /\ caller[c].pre = TaskIds)
                => /\ caller[c].ret = -ENOMEM
                   /\ ValidTasks = caller[c].pre
            /\ (caller[c].op = "init" /\ caller[c].pre = ModIds)
                => /\ caller[c].ret = -EMFILE
                   /\ UsedModules = caller[c].pre

\* C3 -- A task_new that returns EINVAL for its priority has released the
\* slot it reserved: as many slots are valid after the call as before it.
C3_BadPriorityReleasesSlot ==
    \A c \in Callers :
        (caller[c].pc = "idle" /\ caller[c].op = "new"
            /\ caller[c].ret = -EINVAL)
        => Cardinality(ValidTasks) = Cardinality(caller[c].pre)

\* C4 -- Round trip without start: after task_new returned id, task_delete(id)
\* returns and leaves the valid slots as they were before the task_new, and
\* the next task_new with the same arguments returns id again.
C4_RoundTrip ==
    /\ [](\A c \in Callers :
            (caller[c].pc = "idle" /\ caller[c].trip.stage = 2)
                => ValidTasks = caller[c].trip.pre)
    /\ [](\A c \in Callers :
            caller[c].trip.stage = 3
                => caller[c].trip.again = caller[c].trip.id)
    /\ [][\A c \in Callers :
            (caller[c].pc = "del_join" /\ caller[c].trip.stage = 1
                /\ caller[c].trip.id = caller[c].id /\ caller'[c] # caller[c])
            => (caller'[c].pc = "idle" /\ caller'[c].ret = 0
                    /\ caller'[c].trip.stage = 2)]_vars

\* C5 -- task_delete of a task that task_new created and task_start never
\* started returns 0 without a join; task_delete joins only a worker that
\* task_start created for this task and that is still active.
C5_JoinOnlyActiveWorker ==
    /\ [](\A c \in Callers :
            (caller[c].op = "delete" /\ caller[c].was = "configured")
                => /\ caller[c].joins = 0
                   /\ caller[c].pc = "idle" /\ caller[c].ret = 0)
    /\ [][\A c \in Callers :
            (caller[c].pc = "idle" /\ caller'[c].pc = "del_join")
            => /\ caller'[c].arg \in Handles
               /\ Alive(caller'[c].arg)
               /\ thr[caller'[c].arg].task = caller'[c].id]_vars

\* C6 -- The stack of a task is not freed while a worker that task_start
\* created on it is still executing.
C6_StackOutlivesWorker ==
    \A h \in Handles : Alive(h) => thr[h].stk # "freed"

\* C7 -- Shutdown handshake: once task_delete(id) is called for a
\* successfully started task whose entry function loops on wait() and waits
\* in pthread_join for its worker, the worker terminates and task_delete
\* returns 0, and then the slot is free.
C7_ShutdownHandshake ==
    \A c \in Callers :
        /\ (caller[c].pc = "del_join" /\ caller[c].was = "started"
                /\ task_array[caller[c].id].taskcode = "loop")
            ~> (caller[c].pc = "idle" /\ caller[c].op = "delete"
                    /\ caller[c].ret = 0)
        /\ [](caller[c].pc = "idle" /\ caller[c].op = "delete"
                /\ caller[c].ret = 0
                => caller[c].id \notin ValidTasks)

\* C8 -- task_stop on a valid task returns 0 with the destroyed flag set,
\* without a join and without ever being inside a call that waits; a
\* task_stop that follows a task_stop of the same task returns 0 again and
\* changes nothing.
C8_StopSetsDestroyed ==
    /\ [](\A c \in Callers :
            caller[c].op = "stop"
                => /\ caller[c].pc = "idle"
                   /\ caller[c].joins = 0
                   /\ caller[c].id \in caller[c].pre
                        => /\ caller[c].ret = 0
                           /\ task_array[caller[c].id].destroyed = 1)
    /\ [][\A c \in Callers, id \in TaskIds :
            (caller[c].op = "stop" /\ caller[c].id = id /\ caller[c].ret = 0
                /\ rtapi_task_stop(c, id))
            => (task_array' = task_array /\ caller'[c].ret = 0)]_vars

\* task_stop has returned 0 for a started task whose worker is running
C8_Witness ==
    \E c \in Callers, h \in Handles :
        /\ caller[c].pc = "idle" /\ caller[c].op = "stop"
        /\ caller[c].ret = 0 /\ caller[c].was = "started"
        /\ thr[h].pc = "run" /\ thr[h].task = caller[c].id
        /\ task_array[caller[c].id].destroyed = 1

\* C9 -- Once task_stop has set the destroyed flag of a running task, the
\* next wait() of its worker ends the thread.
C9_StopEndsLoop ==
    [][\A h \in Handles :
        (thr[h].pc = "run" /\ thr[h].stk = "live" /\ thr[h].code = "loop"
            /\ task_array[thr[h].task].destroyed = 1
            /\ rtapi_wait(h, task_array[thr[h].task].next_time))
        => thr'[h].pc = "exited"]_vars

\* C10 -- Init-phase failure: a worker whose affinity or priority could not
\* be set has set deleted when it arrives at the barrier, never calls the
\* entry function, and returns; the task_start that created it is released
\* by its arrival and returns ENOMEM.
C10_InitFailure ==
    \A h \in Handles :
        thr[h].err =>
            /\ thr[h].pc \in {"arrive_err", "blocked_err", "epilogue",
                              "exited"}
            /\ thr[h].code = "none"
            /\ thr[h].pc \in {"arrive_err", "blocked_err"}
                => task_array[thr[h].task].deleted = 1
            /\ \A c \in Callers :
                (caller[c].op = "start" /\ caller[c].arg = h) =>
                    /\ caller[c].pc = "idle" => caller[c].ret = -ENOMEM
                    /\ caller[c].pc = "start_arrive"
                        => ENABLED rtapi_task_start_barrier(c)
                    /\ caller[c].pc = "start_blocked"
                        => /\ thr[h].pc = "arrive_err"
                           /\ ENABLED realtime_thread_barrier(h)
                    /\ caller[c].pc = "start_after"
                        => ENABLED rtapi_task_start_done(c)

\* a worker failed its init phase and has returned, and the task_start that
\* created it has returned ENOMEM
C10_Witness ==
    \E c \in Callers, h \in Handles :
        /\ thr[h].err /\ thr[h].pc = "exited"
        /\ caller[c].pc = "idle" /\ caller[c].op = "start"
        /\ caller[c].arg = h /\ caller[c].ret = -ENOMEM

\* C11 -- A task_start whose pthread_create succeeded returns ENOMEM only if
\* the worker it created failed its init phase; with a successful init
\* phase it returns 0.
C11_StartFailsOnlyOnInitFailure ==
    \A c \in Callers :
        (caller[c].pc = "idle" /\ caller[c].op = "start"
            /\ caller[c].arg \in Handles)
        => /\ caller[c].ret \in {0, -ENOMEM}
           /\ caller[c].ret = -ENOMEM <=> thr[caller[c].arg].err

\* C12 -- Once task_start has returned 0 for a task, and after any
\* task_set_period on it, the period of the task is at least the stored
\* clock period.
C12_PeriodAtLeastTick ==
    \A id \in TaskIds :
        life[id] = "started" => task_array[id].period >= period

\* C13 -- While a worker of a task is running its entry function, next_time
\* of the task changes only in steps of exactly the period of the task (taken
\* as sec * 10^9 + nsec): the values after consecutive rtapi_wait calls differ
\* by the period, late or not.
C13_WaitAdvancesByPeriod ==
    [][\A id \in TaskIds :
        ( /\ \E h \in Handles :
                thr[h].task = id /\ thr[h].pc = "run" /\ thr'[h].pc = "run"
          /\ task_array'[id].next_time # task_array[id].next_time )
        => TimeNs(task_array'[id].next_time)
                = TimeNs(task_array[id].next_time) + task_array[id].period
      ]_vars

\* C14 -- An rtapi_wait of a task that is not deleted increments the failure
\* counter exactly when the time read after the sleep is later than the
\* next_time the worker slept to (its value before the advance); a sleep that
\* ends after that time and before next_time + period counts as a miss.
C14_MissIffLate ==
    [][\A h \in Handles, late \in TimingLateBy :
        LET t == task_array[thr[h].task]
            ts == Normal(TimeNs(t.next_time) + late) IN
        (t.deleted = 0 /\ rtapi_wait(h, ts))
        => LET f == task_array'[thr[h].task].failures IN
           IF TimeNs(ts) > TimeNs(t.next_time) THEN f = t.failures + 1
           ELSE f = t.failures
      ]_vars

\* C15 -- The clock period is set at most once.  A clock_set_period(ns) with
\* ns > 0 stores a period >= 1 and returns it when none is stored; with a
\* period stored it returns EINVAL and leaves the period as it was.
\* clock_set_period(0) returns the stored period and changes no state.
C15_ClockPeriodSetOnce ==
    [][/\ period # 0 => period' = period
       /\ \A c \in Callers :
            LET r == caller'[c] IN
            (r # caller[c] /\ r.pc = "idle" /\ r.op = "clock")
            => IF r.id = 0
               THEN /\ r.ret = period
                    /\ UNCHANGED <<task_array, module_array, period, barrier,
                                   thr, life, rtapi_data, array_mutex, printed,
                                   signal>>
               ELSE IF period # 0
               THEN r.ret = -EINVAL /\ period' = period
               ELSE period' >= 1 /\ r.ret = period'
      ]_vars

\* a clock_set_period with a period stored was refused
C15_Witness ==
    \E c \in Callers :
        /\ caller[c].pc = "idle" /\ caller[c].op = "clock"
        /\ caller[c].id > 0 /\ caller[c].ret = -EINVAL
        /\ period >= 1 /\ period # caller[c].id

\* C16 -- init returns the handle of a slot that was free, every handle of an
\* occupied slot is accepted by exit, and the exit frees the slot of the
\* handle and no other, so that init followed by exit leaves the occupied
\* module slots as they were; in linux_rtapi.c and in rt-preempt.c.
C16_ModuleRoundTrip ==
    \A c \in Callers :
        LET r == caller[c]
            n == r.id - MODULE_OFFSET IN
        r.pc = "idle" =>
            /\ (r.op = "init" /\ r.ret >= 0)
                => r.ret - MODULE_OFFSET \in ModIds \ r.pre
            /\ (r.op = "exit" /\ n \in r.pre)
                => r.ret = 0 /\ UsedModules = r.pre \ {n}
            /\ (r.op = "rt_init" /\ r.ret >= 0)
                => r.ret - MODULE_OFFSET \in (1 .. RTAPI_MAX_MODULES) \ r.pre
            /\ (r.op = "rt_exit" /\ n \in r.pre)
                => r.ret = 0 /\ RtUsedModules = r.pre \ {n}

\* what a caller can observe of the state: the slot tables, the period,
\* ratio, deleted and destroyed of every task, and the clock period
Observable ==
    <<ValidTasks, UsedModules, period,
      [i \in TaskIds |-> <<task_array[i].period, task_array[i].ratio,
                           task_array[i].deleted, task_array[i].destroyed>>]>>

\* C17 -- A call that returns an error code leaves the observable state as
\* it was: a call that runs in one step changes none of it, and a call that
\* returns an error after several steps leaves the valid task slots as they
\* were when it began.
C17_ErrorsChangeNothing ==
    [][\A c \in Callers :
        LET r == caller'[c] IN
        (r # caller[c] /\ r.pc = "idle" /\ r.ret < 0)
        => IF caller[c].pc = "idle"
           THEN Observable' = Observable
           ELSE ValidTasks' = r.pre
      ]_vars

C19_StartupOrder ==
    [][\A h \in Handles :
        LET id == thr[h].task IN
        /\ (thr'[h].pc = "arrive_ok" /\ thr[h].pc # "arrive_ok")
            => thr[h].pc = "init"
        /\ (thr'[h].pc = "seed" /\ thr[h].pc # "seed")
            => /\ thr[h].pc \in {"arrive_ok", "blocked_ok"}
               /\ barrier[id].st = "ready" /\ barrier'[id].waiting = {}
               /\ \E c \in Callers :
                    /\ caller[c].op = "start" /\ caller[c].arg = h
                    /\ caller[c].pc \in {"start_arrive", "start_blocked"}
                    /\ caller'[c].pc = "start_after"
        /\ (thr'[h].pc = "run" /\ thr[h].pc # "run")
            => /\ thr[h].pc = "seed"
               /\ thr'[h].code = task_array[id].taskcode
               /\ \E now \in TimingSeedTimes :
                    TimeNs(task_array'[id].next_time)
                        = TimeNs(now) + task_array[id].period
        /\ thr[h].pc \in {"seed", "run"}
            => /\ ~thr[h].err
               /\ thr[h].pc = "run" => thr[h].code # "none"
               /\ \A c \in Callers :
                    (caller[c].op = "start" /\ caller[c].arg = h)
                    => caller[c].pc \in {"start_after", "idle"}
      ]_vars

\* the entry function of a worker runs, with next_time seeded, while the
\* caller that started it is still inside task_start, behind the barrier
C19_Witness ==
    \E h \in Handles, c \in Callers :
        /\ thr[h].pc = "run" /\ thr[h].code = "loop"
        /\ caller[c].pc = "start_after" /\ caller[c].arg = h
        /\ TimeNs(task_array[thr[h].task].next_time) >= NSEC_PER_SEC

\* C20 -- With several host threads inside task_new, task_delete, init and
\* exit at once: a thread between the lock and the unlock of a section holds
\* array_mutex; a task_new returns an id that no task_new has returned
\* since the last task_delete of it returned, and that no other thread
\* inside task_new has reserved; an init writes the tag of a slot that was
\* free.
C20_UniqueIds ==
    [][\A c \in Callers :
        /\ caller[c].pc \in {"new_scan", "new_write", "init_scan",
                              "init_write"}
            => array_mutex = c
        /\ (caller[c].pc = "new_check" /\ caller'[c].pc = "idle"
                /\ caller'[c].op = "new" /\ caller'[c].ret >= 0)
            => /\ life[caller'[c].ret] = "free"
               /\ \A d \in Callers \ {c} :
                    ~(caller[d].pc = "new_check"
                        /\ caller[d].id = caller[c].id)
        /\ (caller[c].pc = "init_write" /\ caller'[c].pc = "idle"
                /\ caller'[c].op = "init")
            => module_array[caller[c].arg] # MODULE_MAGIC
      ]_vars

\* C21 -- When task_start(id, p) has returned 0 with the clock period t
\* stored, the period of the task is max(p, t) and its ratio is period / t;
\* and in every state of a started task the ratio is period / t.
C21_PeriodAndRatio ==
    /\ \A c \in Callers :
        (caller[c].pc = "idle" /\ caller[c].op = "start" /\ caller[c].ret = 0)
        => \E p \in TimingPeriodArgs :
            LET m == IF p < period THEN period ELSE p IN
            /\ task_array[caller[c].id].period = m
            /\ task_array[caller[c].id].ratio = m \div period
    /\ \A id \in TaskIds :
        life[id] = "started"
        => task_array[id].ratio = task_array[id].period \div period

\* C22 -- A task_set_period(id, p) that returns 0 changes the period of task
\* id to p and nothing else of any task or of the rest of the state; and
\* until the caller's next call the period stays p, and every rtapi_wait of
\* the task advances next_time by p.
C22_SetPeriodOnlyPeriod ==
    [][\A c \in Callers :
        LET r == caller'[c] IN
        /\ (r # caller[c] /\ r.pc = "idle" /\ r.op = "set_period"
                /\ r.ret = 0)
            => /\ task_array' = [task_array EXCEPT ![r.id].period = r.arg]
               /\ UNCHANGED <<module_array, period, barrier, thr, life,
                              rtapi_data, array_mutex, printed, signal>>
        /\ (r = caller[c] /\ r.pc = "idle" /\ r.op = "set_period"
                /\ r.ret = 0)
            => /\ task_array[r.id].period = r.arg
               /\ task_array'[r.id].period = r.arg
               /\ ( /\ thr' = thr
                    /\ task_array'[r.id].next_time
                            # task_array[r.id].next_time )
                  => TimeNs(task_array'[r.id].next_time)
                        = TimeNs(task_array[r.id].next_time) + r.arg
      ]_vars

\* task_set_period has set a period below the clock period on a started
\* task whose worker runs and has missed a deadline before
C22_Witness ==
    \E c \in Callers, h \in Handles :
        /\ caller[c].pc = "idle" /\ caller[c].op = "set_period"
        /\ caller[c].ret = 0 /\ caller[c].arg < period
        /\ life[caller[c].id] = "started"
        /\ thr[h].pc = "run" /\ thr[h].task = caller[c].id
        /\ task_array[caller[c].id].period = caller[c].arg
        /\ task_array[caller[c].id].failures > 0

\* C23 -- Every step that gives next_time of a task a new value (the seeding
\* from a clock reading, and the advance in rtapi_wait from the old value)
\* leaves it normalised, 0 <= nsec < 10^9, and at the instant of the value it
\* started from plus the period of the task, also when nsec + period is an
\* exact multiple of 10^9.
C23_CarryNormalised ==
    [][\A id \in TaskIds :
        ( /\ signal' = "none"
          /\ task_array'[id].next_time # task_array[id].next_time )
        => /\ task_array'[id].next_time.nsec >= 0
           /\ task_array'[id].next_time.nsec < NSEC_PER_SEC
           /\ \E from \in TimingSeedTimes \cup {task_array[id].next_time} :
                TimeNs(task_array'[id].next_time)
                    = TimeNs(from) + task_array[id].period
      ]_vars

\* ---------------------------------------------------------------------
\* Deadline misses: a worker sleeps through MissCycles periods of 1 ms and
\* may wake up late from every sleep.

\* the period (ns) the host of the miss specification passes to task_start
MissPeriodArgs == {1000000}
\* how late (ns) a sleep of the miss specification may end
MissLateBy == {0, 2500000}
\* the horizon of the miss specification
MissHorizon == MissCycles * 1000000

\* task id has a worker thread that has not exited
HasWorker(id) == \E h \in Handles : Alive(h) /\ thr[h].task = id

\* the steps of worker thread h in the miss specification: next_time is
\* seeded at the epoch, and a sleep may end late
MissWorkerStep(h) ==
    \/ \E initOk \in BOOLEAN : realtime_thread(h, initOk)
    \/ realtime_thread_barrier(h)
    \/ realtime_thread_seed(h, NoTime)
    \/ \E late \in MissLateBy :
            /\ CanSleep(h, MissHorizon)
            /\ rtapi_wait(h,
                    Normal(TimeNs(task_array[thr[h].task].next_time) + late))
    \/ realtime_thread_return(h)

\* Misses: one host thread sets the clock period, admits a task and starts
\* it while it has no worker, so that the worker is the only thread in the
\* task's rtapi_wait.
MissNext ==
    \/ \E ns \in ClockPeriodArgs, res \in ClockResVals :
            rtapi_clock_set_period(MainCaller, ns, res)
    \/ /\ Cardinality(ValidTasks) < MaxLive
       /\ rtapi_task_new(MainCaller, rtapi_prio_highest, "loop", TRUE)
    \/ rtapi_task_new_check(MainCaller)
    \/ \E id \in TaskIds, ns \in MissPeriodArgs :
            /\ period # 0
            /\ ~HasWorker(id)
            /\ rtapi_task_start(MainCaller, id, ns, TRUE)
    \/ rtapi_task_start_barrier(MainCaller)
    \/ rtapi_task_start_done(MainCaller)
    \/ \E h \in Handles : MissWorkerStep(h)

MissSpec == Init /\ [][MissNext]_vars

\* the tasks whose failure counter a step changes
Missed == { id \in TaskIds :
                task_array'[id].failures # task_array[id].failures }

\* C24: deadline-miss reporting decays and never aborts the loop. A step
\* registers at most one miss, and a miss adds exactly one to the failure
\* counter of its task; the miss that makes the counter 1 emits one ERR
\* message and nothing else, a miss that makes it 2..9 emits one WARN
\* message and nothing else, a miss that makes it 10 or more emits no
\* message, and a step without a miss emits none; after a miss the worker
\* has returned from rtapi_wait into its task code and keeps running.
C24_MissReportingDecays ==
    [][ /\ Cardinality(Missed) <= 1
        /\ Missed = {} => printed' = printed
        /\ \A id \in Missed :
            LET n == task_array'[id].failures IN
            /\ n = task_array[id].failures + 1
            /\ n = 1 => printed' = [printed EXCEPT !.ERR = @ + 1]
            /\ n \in 2 .. 9 => printed' = [printed EXCEPT !.WARN = @ + 1]
            /\ n >= 10 => printed' = printed
            /\ ~crashed'
            /\ thr' = thr
            /\ \E h \in Handles : thr'[h].task = id /\ thr'[h].pc = "run"
      ]_vars

\* C24 witness: a task has missed ten deadlines or more, one ERR message
\* and eight WARN messages have been emitted, and its worker is running
C24_Witness ==
    \E id \in TaskIds, h \in Handles :
        /\ task_array[id].failures >= 10
        /\ printed = [ERR |-> 1, WARN |-> 8]
        /\ thr[h].task = id
        /\ thr[h].pc = "run"

\* the worker threads of task id that have passed the start barrier with
\* their initialisation done and have not left the task code
Workers(id) ==
    { h \in Handles : thr[h].pc \in {"seed", "run"} /\ thr[h].task = id }

\* C25: every task slot has at most one running worker thread, and a
\* task_start on a task that has a running worker creates no thread and
\* leaves the barrier and the deleted and destroyed flags of the task as
\* they are.
C25_SingleWorkerPerTask ==
    [][ \A id \in TaskIds :
        /\ Cardinality(Workers(id))' <= 1
        /\ \A c \in Callers :
            ( /\ Workers(id) # {}
              /\ caller[c].pc = "idle"
              /\ caller'[c] # caller[c]
              /\ caller'[c].op = "start"
              /\ caller'[c].id = id
              /\ ~crashed' )
            => /\ thr' = thr
               /\ barrier'[id] = barrier[id]
               /\ task_array'[id].deleted = task_array[id].deleted
               /\ task_array'[id].destroyed = task_array[id].destroyed
      ]_vars

\* C26: task_start on a valid task yields a defined result in every order
\* of calls relative to clock_set_period. While no clock period is stored
\* (period = 0) no step divides by it, i.e. none delivers SIGFPE, and
\* every task_start that has returned has returned 0 or an error code.
C26_StartDefinedWithoutClock ==
    [][ /\ period = 0 => signal' # "SIGFPE"
        /\ \A c \in Callers :
            ( /\ caller'[c] # caller[c]
              /\ caller'[c].op = "start"
              /\ caller'[c].pc = "idle" )
            => caller'[c].ret \in {0, -EINVAL, -ENOMEM}
      ]_vars

\* C27: a task created in a reused slot behaves like a task created in a
\* never-used slot. When task_new returns an id, the deleted flag, the
\* destroyed flag, the failure counter and the thread handle of the task
\* are those of a never-used slot, whatever the previous occupant left
\* behind; so a task_delete of a task that was not started since its
\* task_new decides about the join as it does in a never-used slot.
C27_ReusedSlotLikeFresh ==
    [][ \A c \in Callers :
        /\ ( /\ caller[c].pc = "new_check"
             /\ caller'[c].pc = "idle"
             /\ caller'[c].op = "new"
             /\ caller'[c].ret >= 0 )
           => LET t == task_array'[caller'[c].ret] IN
              /\ t.deleted = ZeroTask.deleted
              /\ t.destroyed = ZeroTask.destroyed
              /\ t.failures = ZeroTask.failures
              /\ t.thread = ZeroTask.thread
        /\ ( /\ caller[c].pc = "idle"
             /\ caller'[c] # caller[c]
             /\ caller'[c].op = "delete"
             /\ caller'[c].id \in TaskIds
             /\ life[caller'[c].id] = "configured"
             /\ ~crashed' )
           => (caller'[c].pc = "del_join" <=> MustJoin(ZeroTask))
      ]_vars

=============================================================================
